---- MODULE Spec2Model ----
(***************************************************************************)
(* A model of the retrieval-augmented conversational pipeline of the       *)
(* parenting assistant server: the streamed chat generator                 *)
(* (api/routes/chat.py), the fact embedding store (rag/child_details.py,   *)
(* api/routes/child_details.py) and the document index                     *)
(* (rag/vectorstore.py, rag/document_processor.py,                         *)
(* api/routes/documents.py), all working on one Chroma collection and one  *)
(* relational database.                                                    *)
(***************************************************************************)
EXTENDS Integers, Sequences, FiniteSets, TLC

(***************************************************************************)
(* Bounds of the model and the finite domains the inputs are drawn from.   *)
(***************************************************************************)
\* Chunks the completion provider may deliver in one stream.
MaxChunks == 2
\* Entries ever added to the collection by the fact and document requests.
MaxIds == 4
\* ChildDetail rows ever created.
MaxDetails == 2
\* Document uploads that get as far as naming their file.
MaxDocs == 2
\* Chunks the splitter may cut one document into.
MaxSplits == 2
\* the most turns the history store holds when get_chat_history is called
MaxTurns == 3
\* the most items of one batch create
MaxBatch == 2

None == "none"
\* embedding_id: Optional[str] = None; the ids Chroma hands out are 1, 2, ...
NoId == 0
Users == {"u1", "u2"}
\* c1 belongs to u1, c2 to u2; c3 is the id of no child.
ChildIds == {"c1", "c2", "c3"}
Questions == {<<"q">>}
\* A session id the client supplies; a request without one gets a fresh id.
Workers == {"w1", "w2"}
Contents == {"x", "y"}
DetailIds == <<"k1", "k2", "k3", "k4", "k5">>
DocIds == <<"d1", "d2", "d3", "d4", "d5">>
ClientSessions == {"s1"}
FreshSession == "g1"
\* What one chunk of the completion stream carries in its content.
Tokens == {<<"a">>, <<"b">>}
\* The local state of a worker that serves no fact request.
NoOp == [detail |-> None, child |-> None, content |-> None,
         embedding_id |-> NoId, new_id |-> NoId]

VARIABLES
  \* the Chroma collection: a set of entries (id, metadata, content)
  vstore,
  \* the relational tables
  children, chatRows,
  \* one run of chat.stream_generator
  pc, req, session_id, full_answer, sources, retrieved_docs, child_info,
  chat_history, events, requested, closed, saveCalls, saveResult,
  rowsAtStart, calls,
  \* the ChildDetail table and the fresh-id sources (uuid4)
  details, nextId, nextDetail,
  \* the fact requests in progress, one per worker
  fpc, fop, fresult, lastSearch,
  \* the Document table, the upload directory, and the last document request
  documents, files, nextDoc, deleted, dresult,
  \* the last call of get_chat_history: its arguments and what it returned
  lastHistory

chatVars == <<pc, req, session_id, full_answer, sources, retrieved_docs,
              child_info, chat_history, events, requested, closed, saveCalls,
              saveResult, rowsAtStart, calls>>
factVars == <<details, nextId, nextDetail, fpc, fop, fresult, lastSearch>>
docVars == <<documents, files, nextDoc, deleted, dresult>>
histVars == <<lastHistory>>
vars == <<vstore, children, chatRows, chatVars, factVars, docVars, histVars>>

(***************************************************************************)
(* The vector store.  An entry carries the metadata the code stamps on it: *)
(* embed_child_detail writes source = "child_detail", child_detail_id and  *)
(* child_id; index_document writes document_id on top of the loader's own  *)
(* metadata (whose source is the file path).                               *)
(***************************************************************************)
FactEntry(id, detail, child, content) ==
  [id |-> id, source |-> "child_detail", child_detail_id |-> detail,
   child_id |-> child, document_id |-> None, content |-> content]

ChunkEntry(id, doc) ==
  [id |-> id, source |-> "file", child_detail_id |-> None,
   child_id |-> None, document_id |-> doc, content |-> "text"]

\* The results of a similarity search: the k best of the candidates.  The
\* ranking depends on the embedding of the query, which is not modelled, so
\* every choice of min(k, n) candidates is a possible result.
TopK(candidates, k) ==
  {S \in SUBSET candidates :
     Cardinality(S) = IF Cardinality(candidates) < k
                      THEN Cardinality(candidates) ELSE k}


\* The metadata of an entry, as the sources event and the saved turn see it.
Metadata(e) ==
  [source |-> e.source, child_detail_id |-> e.child_detail_id,
   child_id |-> e.child_id, document_id |-> e.document_id]

\* Chroma's where-filter: an entry matches when it agrees on every key.
Matches(e, filter) == \A k \in DOMAIN filter : e[k] = filter[k]

NoFilter == [k \in {} |-> None]

(***************************************************************************)
(* Fact lookup (rag/child_details.py).                                     *)
(***************************************************************************)
FactLimit == 5

SearchFilterNoChild(child) == [source |-> "child_detail"]

SearchFilter(child) == [child_id |-> child, source |-> "child_detail"]

GetChildDetailsUnguarded(store, child, providerOk) ==
  TopK({e \in store : Matches(e, SearchFilter(child))}, FactLimit)

\* The possible results of get_child_details_for_rag: the entries the
\* filtered similarity search returns, or the empty list when the embedding
\* or search provider raises (the except branch).
GetChildDetailsForRag(store, child, providerOk) ==
  IF providerOk
  THEN TopK({e \in store : Matches(e, SearchFilter(child))}, FactLimit)
  ELSE {{}}

(***************************************************************************)
(* The history store (rag/chat_history.py).  chatRows is kept in insertion *)
(* order, which is the order of created_at.                                *)
(***************************************************************************)
HistoryLimit == 10

Reverse(s) == [i \in 1..Len(s) |-> s[Len(s) + 1 - i]]

Take(s, n) == IF Len(s) <= n THEN s ELSE SubSeq(s, 1, n)

RECURSIVE FilterSeq(_, _)
FilterSeq(s, sid) ==
  IF s = <<>> THEN <<>>
  ELSE IF Head(s).session_id = sid
       THEN <<Head(s)>> \o FilterSeq(Tail(s), sid)
       ELSE FilterSeq(Tail(s), sid)

RECURSIVE Expand(_)
Expand(turns) ==
  IF turns = <<>> THEN <<>>
  ELSE <<[role |-> "human", content |-> Head(turns).user_query],
         [role |-> "ai", content |-> Head(turns).ai_response]>>
       \o Expand(Tail(turns))

OldestFirst(s) == s

\* order_by(ChatHistory.created_at.desc()) over rows kept in insertion order.
NewestFirst(s) == Reverse(s)

ChronologicalNot(s) == s

\* reversed(chat_histories): the selected turns, oldest first.
Chronological(s) == Reverse(s)

\* select ... where session_id = sid order by created_at desc limit n,
\* then reversed and expanded to two messages a turn.
GetChatHistory(rows, sid, limit) ==
  Expand(Chronological(Take(NewestFirst(FilterSeq(rows, sid)), limit)))

\* The row save_chat_interaction inserts: sources keeps the document_id of
\* every source that has one.
SaveChatInteraction(user, sid, query, response, child, srcs) ==
  [user_id |-> user, child_id |-> child, session_id |-> sid,
   user_query |-> query, ai_response |-> response,
   sources |-> {s.document_id : s \in {x \in srcs : x.document_id # None}}]

(***************************************************************************)
(* The chat stream generator (api/routes/chat.py).                         *)
(***************************************************************************)
RetrieverK == 3

ExceptionTypes == {"Exception", "AuthenticationError"}

Event(kind, token, srcs, detail, keys, type) ==
  [kind |-> kind, token |-> token, sources |-> srcs, detail |-> detail,
   keys |-> keys, type |-> type]

TokenEvent(t) == Event("token", t, {}, None, {}, None)

SourcesEvent(srcs) == Event("sources", <<>>, srcs, None, {}, None)

\* The two early error events carry only a detail.
EarlyErrorEvent(detail) == Event("error", <<>>, {}, detail, {"detail"}, None)

\* The event of the except block: a detail and the exception's type.
ExceptionEvent(type) ==
  Event("error", <<>>, {},
        IF type = "AuthenticationError"
        THEN "Authentication failed with OpenRouter"
        ELSE "An error occurred",
        {"detail", "type"}, type)

ChildPermittedIfExists(cid, user) == cid \in DOMAIN children

\* if not child or child.parent_id != current_user.id
ChildPermitted(cid, user) == cid \in DOMAIN children /\ children[cid] = user

NoChildInfo == [child |-> None, relevant_details |-> {}]

\* What is noted in calls, beside the call itself, when a call has raised.
Failed(call, raised) ==
  IF ~raised THEN {}
  ELSE IF call = "fact_lookup" THEN {"fact_lookup_failed"}
  ELSE IF call = "reformulate" THEN {"reformulate_failed"}
  ELSE {"retrieve_failed"}

YieldStates == {"yield_early_error", "yield_error", "yield_sources", "yield_token"}

AccumulatePrepend(answer, token) == token \o answer

\* full_answer += token
Accumulate(answer, token) == answer \o token

ShouldSaveAlways(answer) == TRUE

ShouldSaveUnlessClosed(answer) == answer # <<>> /\ ~closed'

\* if full_answer:
ShouldSave(answer) == answer # <<>>

\* The finally block: the turn is saved when some answer was accumulated; an
\* error of the save is logged and swallowed.
Finally(dbOk) ==
  /\ pc' = "done"
  /\ IF ShouldSave(full_answer)
     THEN /\ saveCalls' = saveCalls + 1
          /\ IF dbOk
             THEN /\ chatRows' = Append(chatRows,
                        SaveChatInteraction(req.user, session_id, req.question,
                                            full_answer, req.child_id, sources))
                  /\ saveResult' = "saved"
             ELSE /\ chatRows' = chatRows
                  /\ saveResult' = "failed"
     ELSE UNCHANGED <<saveCalls, chatRows, saveResult>>

\* The route handler: fixes the session id and hands the generator to the
\* streaming response.
ChatStart(user, question, sid, cid) ==
  /\ pc = "idle"
  /\ pc' = "start"
  /\ req' = [user |-> user, question |-> question, session_id |-> sid,
             child_id |-> cid]
  /\ session_id' = IF sid = None THEN FreshSession ELSE sid
  /\ full_answer' = <<>>
  /\ sources' = {}
  /\ retrieved_docs' = {}
  /\ child_info' = NoChildInfo
  /\ chat_history' = <<>>
  /\ events' = <<>>
  /\ requested' = 0
  /\ closed' = FALSE
  /\ saveCalls' = 0
  /\ saveResult' = None
  /\ rowsAtStart' = Len(chatRows)
  /\ calls' = {}
  /\ UNCHANGED <<factVars, docVars, histVars, vstore, children, chatRows>>

\* 1. Initial setup: the child lookup, the child snapshot with its fact
\* lookup, and the history load.
ChatSetup ==
  /\ pc = "start"
  /\ IF req.child_id # None /\ ~ChildPermitted(req.child_id, req.user)
     THEN /\ events' = Append(events,
                 EarlyErrorEvent("Child not found or not permitted"))
          /\ pc' = "yield_early_error"
          /\ calls' = calls \cup {"child_lookup"}
          /\ UNCHANGED <<child_info, chat_history>>
     ELSE /\ IF req.child_id = None
             THEN /\ child_info' = NoChildInfo
                  /\ calls' = calls \cup {"history_load"}
             ELSE \E providerOk \in BOOLEAN :
                     /\ \E found \in GetChildDetailsForRag(vstore,
                                          req.child_id, providerOk) :
                           child_info' = [child |-> req.child_id,
                                          relevant_details |-> found]
                     /\ calls' = calls
                           \cup {"child_lookup", "fact_lookup", "history_load"}
                           \cup Failed("fact_lookup", ~providerOk)
          /\ chat_history' = GetChatHistory(chatRows, session_id, HistoryLimit)
          /\ events' = events
          /\ pc' = "llm_init"
  /\ UNCHANGED <<factVars, docVars, histVars, vstore, children, chatRows, req, session_id, full_answer,
                 sources, retrieved_docs, requested, closed, saveCalls,
                 saveResult, rowsAtStart>>

\* 2. get_openrouter_chat_model, in its own try block.
ChatLlmInit ==
  /\ pc = "llm_init"
  /\ calls' = calls \cup {"llm_init"}
  /\ \/ /\ pc' = "retrieve"
        /\ events' = events
     \/ /\ events' = Append(events, EarlyErrorEvent("Failed to initialize LLM"))
        /\ pc' = "yield_early_error"
  /\ UNCHANGED <<factVars, docVars, histVars, vstore, children, chatRows, req, session_id, full_answer,
                 sources, retrieved_docs, child_info, chat_history, requested,
                 closed, saveCalls, saveResult, rowsAtStart>>

RaiseSwallowed(type) ==
  /\ events' = events
  /\ pc' = "stream"

\* The except block: one error event, then return.
Raise(type) ==
  /\ events' = Append(events, ExceptionEvent(type))
  /\ pc' = "yield_error"

\* The sources event is sent whatever was retrieved.
SourcesEventsIfAny(srcs) == IF srcs = {} THEN <<>> ELSE <<SourcesEvent(srcs)>>

SourcesEvents(srcs) == <<SourcesEvent(srcs)>>

\* 3. history_aware_retriever.ainvoke: with a history the question is first
\* reformulated by the model, then the retriever searches the collection
\* with k = 3 and no filter; the sources are sent.
ChatRetrieve ==
  /\ pc = "retrieve"
  /\ \/ /\ calls' = calls \cup {"retrieve"}
              \cup (IF chat_history # <<>> THEN {"reformulate"} ELSE {})
        /\ \E docs \in TopK({e \in vstore : Matches(e, NoFilter)}, RetrieverK) :
              /\ retrieved_docs' = docs
              /\ sources' = {Metadata(d) : d \in docs}
              /\ events' = events \o SourcesEvents({Metadata(d) : d \in docs})
        /\ pc' = "yield_sources"
     \/ /\ chat_history # <<>>
        /\ calls' = calls \cup {"reformulate"} \cup Failed("reformulate", TRUE)
        /\ \E type \in ExceptionTypes : Raise(type)
        /\ UNCHANGED <<retrieved_docs, sources>>
     \/ /\ calls' = calls \cup {"retrieve"} \cup Failed("retrieve", TRUE)
              \cup (IF chat_history # <<>> THEN {"reformulate"} ELSE {})
        /\ \E type \in ExceptionTypes : Raise(type)
        /\ UNCHANGED <<retrieved_docs, sources>>
  /\ UNCHANGED <<factVars, docVars, histVars, vstore, children, chatRows, req, session_id, full_answer,
                 child_info, chat_history, requested, closed, saveCalls,
                 saveResult, rowsAtStart>>

\* 4. One pull on the completion stream: a chunk (whose token is sent and
\* accumulated unless it is empty), the end of the stream, or an exception.
ChatStream ==
  /\ pc = "stream"
  /\ requested' = requested + 1
  /\ calls' = calls \cup {"generate"}
  /\ closed' = closed
  /\ \/ /\ requested < MaxChunks
        /\ \E t \in Tokens :
              /\ full_answer' = Accumulate(full_answer, t)
              /\ events' = Append(events, TokenEvent(t))
        /\ pc' = "yield_token"
        /\ UNCHANGED <<chatRows, saveCalls, saveResult>>
     \/ /\ requested < MaxChunks
        /\ pc' = "stream"
        /\ UNCHANGED <<full_answer, events, chatRows, saveCalls, saveResult>>
     \/ /\ \E dbOk \in BOOLEAN : Finally(dbOk)
        /\ UNCHANGED <<full_answer, events>>
     \/ /\ \E type \in ExceptionTypes : Raise(type)
        /\ UNCHANGED <<full_answer, chatRows, saveCalls, saveResult>>
  /\ UNCHANGED <<factVars, docVars, histVars, vstore, children, req, session_id, sources, retrieved_docs,
                 child_info, chat_history, rowsAtStart>>

ResumeAfterErrorContinue(at) ==
  IF at = "yield_error" THEN "return"
  ELSE IF at = "yield_early_error" THEN "llm_init" ELSE "stream"

\* Where the generator goes when it is resumed at a yield: every error event
\* is followed by return, the others by the token loop.
ResumeTarget(at) ==
  IF at \in {"yield_early_error", "yield_error"} THEN "return" ELSE "stream"

\* The consumer asks for the next event.
ChatResume ==
  /\ pc \in YieldStates
  /\ closed' = closed
  /\ IF ResumeTarget(pc) = "return"
     THEN \E dbOk \in BOOLEAN : Finally(dbOk)
     ELSE /\ pc' = ResumeTarget(pc)
          /\ UNCHANGED <<chatRows, saveCalls, saveResult>>
  /\ UNCHANGED <<factVars, docVars, histVars, vstore, children, req, session_id, full_answer, sources,
                 retrieved_docs, child_info, chat_history, events, requested,
                 rowsAtStart, calls>>

\* The consumer closes the generator at a yield: GeneratorExit is no
\* Exception, so only the finally block runs.
ChatClose ==
  /\ pc \in YieldStates
  /\ closed' = TRUE
  /\ \E dbOk \in BOOLEAN : Finally(dbOk)
  /\ UNCHANGED <<factVars, docVars, histVars, vstore, children, req, session_id, full_answer, sources,
                 retrieved_docs, child_info, chat_history, events, requested,
                 rowsAtStart, calls>>

NextChat ==
  \/ \E u \in Users, q \in Questions, sid \in ClientSessions \cup {None},
        cid \in ChildIds \cup {None} : ChatStart(u, q, sid, cid)
  \/ ChatSetup
  \/ ChatLlmInit
  \/ ChatRetrieve
  \/ ChatStream
  \/ ChatResume
  \/ ChatClose

\* The collection a chat request finds: facts of both children and the
\* chunks of one document, or nothing at all.
SeedEntries ==
  {FactEntry(1, "k1", "c1", "x"), FactEntry(2, "k2", "c2", "y"),
   ChunkEntry(3, "d1"), ChunkEntry(4, "d1")}

InitChatVars ==
  /\ pc = "idle"
  /\ req = [user |-> "u1", question |-> <<"q">>, session_id |-> None,
            child_id |-> None]
  /\ session_id = None
  /\ full_answer = <<>>
  /\ sources = {}
  /\ retrieved_docs = {}
  /\ child_info = NoChildInfo
  /\ chat_history = <<>>
  /\ events = <<>>
  /\ requested = 0
  /\ closed = FALSE
  /\ saveCalls = 0
  /\ saveResult = None
  /\ rowsAtStart = 0
  /\ calls = {}

\* The turns earlier requests have persisted under the client's session.
SeedTurn(user, child, response) ==
  SaveChatInteraction(user, "s1", <<"q">>, response, child, {})

SeedHistories ==
  {<<>>,
   <<SeedTurn("u2", None, <<"b">>)>>,
   <<SeedTurn("u1", "c1", <<"a">>), SeedTurn("u2", None, <<"b">>)>>}

InitFactVars ==
  /\ details = [d \in {} |-> None]
  /\ nextId = 1
  /\ nextDetail = 1
  /\ fpc = [w \in Workers |-> "idle"]
  /\ fop = [w \in Workers |-> NoOp]
  /\ fresult = [w \in Workers |-> None]
  /\ lastSearch = [child |-> None, found |-> {}]

NoRequest == [op |-> None, doc |-> None, status |-> None,
              vector_deleted |-> FALSE, repeated |-> FALSE, chunks |-> 0,
              cause |-> None]

NoHistoryCall == [session_id |-> None, limit |-> 0, messages |-> <<>>]

InitDocVars ==
  /\ lastHistory = NoHistoryCall
  /\ documents = [d \in {} |-> None]
  /\ files = {}
  /\ nextDoc = 1
  /\ deleted = {}
  /\ dresult = NoRequest

InitChat ==
  /\ InitDocVars
  /\ InitFactVars
  /\ vstore \in {{}, SeedEntries}
  /\ children = [c \in {"c1", "c2"} |-> IF c = "c1" THEN "u1" ELSE "u2"]
  /\ chatRows \in SeedHistories
  /\ InitChatVars

SpecChat == InitChat /\ [][NextChat]_vars


(***************************************************************************)
(* Properties of the chat stream.                                          *)
(***************************************************************************)
EventsOfKind(kind) == {i \in DOMAIN events : events[i].kind = kind}

TokenEvents == SelectSeq(events, LAMBDA e : e.kind = "token")

RECURSIVE ConcatTokens(_)
ConcatTokens(evs) ==
  IF evs = <<>> THEN <<>> ELSE Head(evs).token \o ConcatTokens(Tail(evs))

\* The rows this run has persisted.
NewRows == SubSeq(chatRows, rowsAtStart + 1, Len(chatRows))

\* The completion stream raised: the except block ran after generation began.
StreamFailed == "generate" \in calls /\ EventsOfKind("error") # {}

\* C1: in every run of the generator save_chat_interaction is invoked at most
\* once, only by the finally block, and a finished run has invoked it exactly
\* when at least one non-empty token fragment was accumulated; normal
\* completion, the early returns and the exception path alike.
C1_SaveAtMostOnceIffAnswer ==
  /\ saveCalls <= 1
  /\ pc # "done" => saveCalls = 0
  /\ pc = "done" => (saveCalls = 1 <=> EventsOfKind("token") # {})
  /\ pc = "done" => (saveCalls = 1 <=> full_answer # <<>>)

\* A run that accumulated tokens, then took the exception path, and saved.
C1_Witness ==
  /\ pc = "done"
  /\ saveCalls = 1
  /\ EventsOfKind("token") # {}
  /\ \E i \in EventsOfKind("error") : "type" \in events[i].keys

C4_OneSourcesBeforeTokens ==
  /\ Cardinality(EventsOfKind("sources")) <= 1
  /\ \A i \in EventsOfKind("token") :
        \E j \in EventsOfKind("sources") : j < i

\* A stream whose sources event is empty and is followed by a token.
C4_Witness ==
  /\ EventsOfKind("token") # {}
  /\ \E j \in EventsOfKind("sources") : events[j].sources = {}

\* C5: a stream holds at most one error event, and no token or sources event
\* follows an error event.
C5_ErrorIsLastAndOnly ==
  /\ Cardinality(EventsOfKind("error")) <= 1
  /\ \A i \in EventsOfKind("error") : i = Len(events)

\* A finished stream that ends with an error event after a token.
C5_Witness ==
  /\ pc = "done"
  /\ EventsOfKind("token") # {}
  /\ EventsOfKind("error") # {}

\* C8 as stated: in a chat request for child A, or for no child, no entry
\* tagged with another child's id is among the retrieved documents, in the
\* sources event, or in the context handed to generation.
C8_NoOtherChildRetrieved ==
  /\ \A d \in retrieved_docs : d.child_id \in {None, req.child_id}
  /\ \A s \in sources : s.child_id \in {None, req.child_id}
  /\ \A i \in EventsOfKind("sources") :
        \A s \in events[i].sources : s.child_id \in {None, req.child_id}


(***************************************************************************)
(* The fact embedding store (rag/child_details.py) behind the fact routes  *)
(* (api/routes/child_details.py).  A request runs on a worker; its calls   *)
(* to the database and to the collection are separate steps, so two        *)
(* requests may interleave.  Each call to the collection may raise.        *)
(***************************************************************************)
Put(f, k, v) == [x \in DOMAIN f \cup {k} |-> IF x = k THEN v ELSE f[x]]

Drop(f, k) == [x \in DOMAIN f \ {k} |-> f[x]]

CheckChildExists(cid, user) ==
  IF cid \notin DOMAIN children THEN "404" ELSE "ok"

\* The ownership check of the fact routes: 404 for a missing child, 403 for
\* another user's, otherwise "ok".
CheckChild(cid, user) ==
  IF cid \notin DOMAIN children THEN "404"
  ELSE IF children[cid] # user THEN "403" ELSE "ok"

Finish(w, status) ==
  /\ fpc' = [fpc EXCEPT ![w] = "idle"]
  /\ fop' = [fop EXCEPT ![w] = NoOp]
  /\ fresult' = [fresult EXCEPT ![w] = status]

\* embed_child_detail: one new entry under a fresh id, built from the fields
\* of the caller's ChildDetail object.
EmbedChildDetail(store, id, op) ==
  store \cup {FactEntry(id, op.detail, op.child, op.content)}

\* create_child_detail, up to the first commit of save_child_detail.
CreateBegin(w, user, cid, content) ==
  /\ fpc[w] = "idle"
  /\ IF CheckChild(cid, user) # "ok"
     THEN /\ Finish(w, CheckChild(cid, user))
          /\ UNCHANGED <<details, nextDetail>>
     ELSE /\ nextDetail <= MaxDetails
          /\ details' = Put(details, DetailIds[nextDetail],
                            [child_id |-> cid, content |-> content,
                             embedding_id |-> NoId])
          /\ nextDetail' = nextDetail + 1
          /\ fpc' = [fpc EXCEPT ![w] = "create_embed"]
          /\ fop' = [fop EXCEPT ![w] =
                       [detail |-> DetailIds[nextDetail], child |-> cid,
                        content |-> content, embedding_id |-> NoId,
                        new_id |-> NoId]]
          /\ fresult' = [fresult EXCEPT ![w] = None]
  /\ UNCHANGED <<vstore, nextId, lastSearch, children, chatRows, chatVars, docVars, histVars>>

\* The embedding step of save_child_detail and of
\* update_child_detail_embedding; an exception ends the request.
FactEmbed(w, ok) ==
  /\ fpc[w] \in {"create_embed", "update_embed"}
  /\ IF ok
     THEN /\ nextId <= MaxIds
          /\ vstore' = EmbedChildDetail(vstore, nextId, fop[w])
          /\ nextId' = nextId + 1
          /\ fpc' = [fpc EXCEPT ![w] = "write_back"]
          /\ fop' = [fop EXCEPT ![w].new_id = nextId]
          /\ fresult' = fresult
     ELSE /\ Finish(w, "500")
          /\ UNCHANGED <<vstore, nextId>>
  /\ UNCHANGED <<details, nextDetail, lastSearch, children, chatRows, chatVars,
                 docVars, histVars>>

\* child_detail.embedding_id = embedding_id; db.add; db.commit.
FactWriteBack(w) ==
  /\ fpc[w] = "write_back"
  /\ IF fop[w].detail \in DOMAIN details
     THEN /\ details' = [details EXCEPT
                           ![fop[w].detail].embedding_id = fop[w].new_id]
          /\ Finish(w, "ok")
     ELSE /\ details' = details
          /\ Finish(w, "500")
  /\ UNCHANGED <<vstore, nextId, nextDetail, lastSearch, children, chatRows,
                 chatVars, docVars, histVars>>

\* update_child_detail, up to the commit of the new fields; the refreshed
\* object carries the embedding_id the row has at this moment.
UpdateBegin(w, user, d, content) ==
  /\ fpc[w] = "idle"
  /\ IF d \notin DOMAIN details
     THEN /\ Finish(w, "404")
          /\ details' = details
     ELSE IF children[details[d].child_id] # user
     THEN /\ Finish(w, "403")
          /\ details' = details
     ELSE /\ details' = [details EXCEPT ![d].content = content]
          /\ fpc' = [fpc EXCEPT ![w] = "update_delete"]
          /\ fop' = [fop EXCEPT ![w] =
                       [detail |-> d, child |-> details[d].child_id,
                        content |-> content,
                        embedding_id |-> details[d].embedding_id,
                        new_id |-> NoId]]
          /\ fresult' = [fresult EXCEPT ![w] = None]
  /\ UNCHANGED <<vstore, nextId, nextDetail, lastSearch, children, chatRows,
                 chatVars, docVars, histVars>>

OldEmbeddingKept(embedding_id) == {}

\* if child_detail.embedding_id: vectorstore.delete([embedding_id])
OldEmbedding(embedding_id) ==
  IF embedding_id # NoId THEN {embedding_id} ELSE {}

\* The first step of update_child_detail_embedding: the old entry goes.
UpdateDeleteOld(w, ok) ==
  /\ fpc[w] = "update_delete"
  /\ IF ok
     THEN /\ vstore' = {e \in vstore :
                          e.id \notin OldEmbedding(fop[w].embedding_id)}
          /\ fpc' = [fpc EXCEPT ![w] = "update_embed"]
          /\ UNCHANGED <<fop, fresult>>
     ELSE /\ fop[w].embedding_id # NoId
          /\ Finish(w, "500")
          /\ vstore' = vstore
  /\ UNCHANGED <<details, nextId, nextDetail, lastSearch, children, chatRows,
                 chatVars, docVars, histVars>>

\* delete_child_detail: the entry is deleted, then the row.
DeleteChildDetail(w, user, d, ok) ==
  /\ fpc[w] = "idle"
  /\ IF d \notin DOMAIN details
     THEN /\ Finish(w, "404")
          /\ UNCHANGED <<details, vstore>>
     ELSE IF children[details[d].child_id] # user
     THEN /\ Finish(w, "403")
          /\ UNCHANGED <<details, vstore>>
     ELSE IF ok
     THEN /\ vstore' = {e \in vstore :
                          e.id \notin OldEmbedding(details[d].embedding_id)}
          /\ details' = Drop(details, d)
          /\ Finish(w, "ok")
     ELSE /\ details[d].embedding_id # NoId
          /\ Finish(w, "500")
          /\ UNCHANGED <<details, vstore>>
  /\ UNCHANGED <<nextId, nextDetail, lastSearch, children, chatRows, chatVars,
                 docVars, histVars>>

\* The checks of create_child_details_batch in the order the code makes
\* them: an empty list, items of different children, then the child.
BatchStatus(cs, user) ==
  IF cs = << >> THEN "400"
  ELSE IF \E i \in DOMAIN cs : cs[i] # cs[1] THEN "400"
  ELSE CheckChild(cs[1], user)

BatchAcceptedLazily(cs, user) ==
  Cardinality({i \in DOMAIN cs :
                 \A j \in 1..i : cs[j] = cs[1] /\ CheckChild(cs[j], user) = "ok"})

\* The number of items save_child_detail is called for: all of them once
\* the checks have passed, none otherwise.
BatchAccepted(cs, user) ==
  IF BatchStatus(cs, user) = "ok" THEN Len(cs) ELSE 0

\* create_child_details_batch: after the checks, save_child_detail for one
\* item after the other (row committed, entry embedded, id written back).
\* When the embedding of item failAt raises, the request ends there: the
\* items before it are complete and the row of that item stays as committed.
CreateBatch(w, user, cs, content, failAt) ==
  LET n == BatchAccepted(cs, user)
      done == IF failAt = 0 THEN n ELSE failAt - 1
      rows == IF failAt = 0 THEN n ELSE failAt
      status == IF BatchStatus(cs, user) # "ok" THEN BatchStatus(cs, user)
                ELSE IF failAt = 0 THEN "ok" ELSE "500"
      Id(i) == DetailIds[nextDetail + i - 1]
  IN
  /\ fpc[w] = "idle"
  /\ failAt <= n
  /\ nextDetail + rows - 1 <= MaxDetails
  /\ nextId + done - 1 <= MaxIds
  /\ details' = [d \in DOMAIN details \cup {Id(i) : i \in 1..rows} |->
                   IF d \in DOMAIN details THEN details[d]
                   ELSE [child_id |-> cs[1], content |-> content,
                         embedding_id |->
                            IF d \in {Id(i) : i \in 1..done}
                            THEN nextId + (CHOOSE i \in 1..done : Id(i) = d) - 1
                            ELSE NoId]]
  /\ vstore' = vstore \cup {FactEntry(nextId + i - 1, Id(i), cs[1], content) :
                              i \in 1..done}
  /\ nextDetail' = nextDetail + rows
  /\ nextId' = nextId + done
  /\ Finish(w, status)
  /\ UNCHANGED <<lastSearch, children, chatRows, chatVars, docVars, histVars>>

\* The rows the relationships of Child delete with it (cascade_delete).
CascadeDetails(rows, cid) ==
  [d \in {x \in DOMAIN rows : rows[x].child_id # cid} |-> rows[d]]

RECURSIVE CascadeTurns(_, _)
CascadeTurns(rows, cid) ==
  IF rows = <<>> THEN <<>>
  ELSE IF Head(rows).child_id = cid
       THEN CascadeTurns(Tail(rows), cid)
       ELSE <<Head(rows)>> \o CascadeTurns(Tail(rows), cid)

\* delete_child: db.delete(child); db.commit(). The ChildDetail and
\* ChatHistory rows of the child go with it; the collection is not touched.
DeleteChild(w, user, cid) ==
  /\ fpc[w] = "idle"
  /\ IF CheckChild(cid, user) # "ok"
     THEN /\ Finish(w, CheckChild(cid, user))
          /\ UNCHANGED <<children, details, chatRows>>
     ELSE /\ children' = Drop(children, cid)
          /\ details' = CascadeDetails(details, cid)
          /\ chatRows' = CascadeTurns(chatRows, cid)
          /\ Finish(w, "ok")
  /\ UNCHANGED <<vstore, nextId, nextDetail, lastSearch, chatVars, docVars, histVars>>

\* No other worker is in the middle of a request.
Alone(w) == \A v \in Workers \ {w} : fpc[v] = "idle"

\* The ids a request may name: those of the rows, and one of no row.
DetailArgs == DOMAIN details \cup {DetailIds[nextDetail]}

\* Requests are served one after the other; the collection may fail.
NextFacts ==
  \/ \E u \in Users, c \in ChildIds, x \in Contents :
        CreateBegin("w1", u, c, x)
  \/ \E u \in Users, d \in DetailArgs, x \in Contents :
        UpdateBegin("w1", u, d, x)
  \/ \E ok \in BOOLEAN : UpdateDeleteOld("w1", ok)
  \/ \E ok \in BOOLEAN : FactEmbed("w1", ok)
  \/ FactWriteBack("w1")
  \/ \E u \in Users, d \in DetailArgs, ok \in BOOLEAN :
        DeleteChildDetail("w1", u, d, ok)

\* Two workers serve updates of the facts at the same time; nothing fails.
NextFactsRace ==
  \/ \E x \in Contents : Alone("w1") /\ CreateBegin("w1", "u1", "c1", x)
  \/ \E w \in Workers, d \in DOMAIN details, x \in Contents :
        UpdateBegin(w, "u1", d, x)
  \/ \E w \in Workers : UpdateDeleteOld(w, TRUE)
  \/ \E w \in Workers : FactEmbed(w, TRUE)
  \/ \E w \in Workers : FactWriteBack(w)

\* Requests are served one after the other and nothing fails.
NextFactsSerial ==
  \/ \E u \in Users, c \in ChildIds, x \in Contents :
        CreateBegin("w1", u, c, x)
  \/ \E u \in Users, d \in DetailArgs, x \in Contents :
        UpdateBegin("w1", u, d, x)
  \/ UpdateDeleteOld("w1", TRUE)
  \/ FactEmbed("w1", TRUE)
  \/ FactWriteBack("w1")
  \/ \E u \in Users, d \in DetailArgs : DeleteChildDetail("w1", u, d, TRUE)

\* The collection holds the chunks of one document when the facts arrive.
InitFacts ==
  /\ InitDocVars
  /\ InitChatVars
  /\ InitFactVars
  /\ vstore = {ChunkEntry(MaxIds + 10, "d1")}
  /\ children = [c \in {"c1", "c2"} |-> IF c = "c1" THEN "u1" ELSE "u2"]
  /\ chatRows = <<>>

SpecFacts == InitFacts /\ [][NextFacts]_vars

SpecFactsSerial == InitFacts /\ [][NextFactsSerial]_vars

SpecFactsRace == InitFacts /\ [][NextFactsRace]_vars

\* The fact routes and the deletion of a child, served one after the other.
NextFactsChild ==
  \/ NextFactsSerial
  \/ \E u \in Users, c \in ChildIds : DeleteChild("w1", u, c)

SpecFactsChild == InitFacts /\ [][NextFactsChild]_vars

\* Turns saved by earlier chat requests are in the table while children are
\* deleted, facts are written and histories are read.
InitTurns ==
  /\ InitDocVars
  /\ InitChatVars
  /\ InitFactVars
  /\ vstore = {ChunkEntry(MaxIds + 10, "d1")}
  /\ children = [c \in {"c1", "c2"} |-> IF c = "c1" THEN "u1" ELSE "u2"]
  /\ chatRows \in SeedHistories

\* The batches a request may carry: up to MaxBatch items, each with the id
\* of a child.
Batches == UNION {[1..n -> ChildIds] : n \in 0..MaxBatch}

\* The items of a batch whose embedding may fail: any of an accepted batch
\* (0 stands for none).
BatchFaults(cs, user) == 0..BatchAccepted(cs, user)

\* The fact routes with the batch create, served one after the other; the
\* embedding of a fact may fail.
NextFactsBatch ==
  \/ \E u \in Users, c \in ChildIds : CreateBegin("w1", u, c, "x")
  \/ \E u \in Users, d \in DetailArgs : UpdateBegin("w1", u, d, "y")
  \/ UpdateDeleteOld("w1", TRUE)
  \/ \E ok \in BOOLEAN : FactEmbed("w1", ok)
  \/ FactWriteBack("w1")
  \/ \E u \in Users, d \in DetailArgs : DeleteChildDetail("w1", u, d, TRUE)
  \/ \E u \in Users, cs \in Batches :
        \E failAt \in BatchFaults(cs, u) : CreateBatch("w1", u, cs, "x", failAt)

SpecFactsBatch == InitFacts /\ [][NextFactsBatch]_vars

\* Every fact route, served one after the other, nothing failing.
NextFactsRoutes ==
  \/ \E u \in Users, c \in ChildIds : CreateBegin("w1", u, c, "x")
  \/ \E u \in Users, d \in DetailArgs : UpdateBegin("w1", u, d, "y")
  \/ UpdateDeleteOld("w1", TRUE)
  \/ FactEmbed("w1", TRUE)
  \/ FactWriteBack("w1")
  \/ \E u \in Users, d \in DetailArgs : DeleteChildDetail("w1", u, d, TRUE)
  \/ \E u \in Users, cs \in Batches : CreateBatch("w1", u, cs, "x", 0)

SpecFactsRoutes == InitFacts /\ [][NextFactsRoutes]_vars


(***************************************************************************)
(* The document index (rag/vectorstore.py), the document processor         *)
(* (rag/document_processor.py) and the document routes                     *)
(* (api/routes/documents.py).                                              *)
(***************************************************************************)
MAX_DOCUMENTS_PER_USER == 2

ALLOWED_EXTENSIONS == {".pdf", ".docx", ".html"}

Extensions == ALLOWED_EXTENSIONS \cup {".txt"}

\* load_and_split_document picks its loader by the ending of the file path.
LoaderFor(extension) ==
  IF extension = ".pdf" THEN "PyPDFLoader"
  ELSE IF extension = ".docx" THEN "Docx2txtLoader"
  ELSE IF extension = ".html" THEN "UnstructuredHTMLLoader"
  ELSE "ValueError"

\* The steps of an upload that may raise.
UploadFaults == {"none", "save_file", "insert_row", "load", "add_documents",
                 "chunk_count"}

\* index_document: n splits, each stamped with document_id, are added under
\* fresh ids.
IndexDocument(store, doc, first, n) ==
  store \cup {ChunkEntry(i, doc) : i \in first..(first + n - 1)}

DeleteWhereAny(store, doc) == {e \in store : e.document_id = None}

DeleteWhereNothing(store, doc) == store

\* vectorstore.delete(where={"document_id": str(document_id)})
DeleteWhere(store, doc) == {e \in store : e.document_id # doc}

\* The answer to a document request, with what the request met: whether the
\* id had been deleted before, how many entries it had in the collection, and
\* what made the request fail, if it did.
Respond(op, doc, status, vectorDeleted, cause) ==
  dresult' = [op |-> op, doc |-> doc, status |-> status,
              vector_deleted |-> vectorDeleted, repeated |-> doc \in deleted,
              chunks |-> IF doc = None THEN 0
                         ELSE Cardinality({e \in vstore :
                                             e.document_id = doc}),
              cause |-> cause]

\* The checks of an upload in the order the code makes them: the count of
\* Document rows, the size of the file, then validate_file_type.
Rejection(rows, sizeOk, extension) ==
  IF Cardinality(DOMAIN rows) >= MAX_DOCUMENTS_PER_USER THEN "limit"
  ELSE IF ~sizeOk THEN "size"
  ELSE IF extension \notin ALLOWED_EXTENSIONS THEN "extension"
  ELSE "none"

\* The status the caller sees: the route raises 400 for the count and the
\* size itself; whatever process_document raises, the 400 of
\* validate_file_type included, is caught by the route and raised as 500.
UploadStatus(cause) ==
  IF cause = "none" THEN "201"
  ELSE IF cause \in {"limit", "size"} THEN "400"
  ELSE "500"

FileSavedUnvalidated(extension, fault) == fault # "save_file"

\* The file is written once validate_file_type has passed.
FileSaved(extension, fault) ==
  extension \in ALLOWED_EXTENSIONS /\ fault # "save_file"

\* The row is committed after the file is written.
RowInserted(extension, fault) ==
  extension \in ALLOWED_EXTENSIONS /\ fault \notin {"save_file", "insert_row"}

\* index_document has added its splits when only a later step fails.
Indexed(extension, fault) ==
  extension \in ALLOWED_EXTENSIONS /\ fault \in {"none", "chunk_count"}

\* except block: os.remove(file_path) if the file exists.
CleanupFile(fs, d) == fs \ {d}

CleanupRowKept(rows, d) == rows

\* except block: db.delete(document); db.commit() if the row was created.
CleanupRow(rows, d) == Drop(rows, d)

\* upload_document with process_document: the count and size checks, the
\* type check, then file, row, index and chunk count, with the cleanup of the
\* except block when a step inside the try raises. The except block does not
\* touch the collection.
UploadDocument(extension, sizeOk, n, fault) ==
  LET d == DocIds[nextDoc]
      rejected == Rejection(documents, sizeOk, extension)
      cause == IF rejected # "none" THEN rejected ELSE fault
      inTry == rejected = "none"
      raised == inTry /\ fault # "none"
      saved == rejected \notin {"limit", "size"} /\ FileSaved(extension, fault)
      inserted == inTry /\ RowInserted(extension, fault)
      indexed == inTry /\ Indexed(extension, fault)
      files1 == IF saved THEN files \cup {d} ELSE files
      rows1 == IF inserted
               THEN Put(documents, d, [status |-> "active",
                                       file_type |-> extension,
                                       chunk_count |-> n])
               ELSE documents
  IN
  /\ inTry => nextDoc <= MaxDocs
  /\ indexed => nextId + n <= MaxIds + 1
  /\ files' = IF raised THEN CleanupFile(files1, d) ELSE files1
  /\ documents' = IF raised THEN CleanupRow(rows1, d) ELSE rows1
  /\ vstore' = IF indexed THEN IndexDocument(vstore, d, nextId, n) ELSE vstore
  /\ nextId' = IF indexed THEN nextId + n ELSE nextId
  /\ nextDoc' = IF inTry THEN nextDoc + 1 ELSE nextDoc
  /\ deleted' = deleted
  /\ Respond("upload", IF inTry THEN d ELSE None, UploadStatus(cause), FALSE,
             cause)
  /\ UNCHANGED <<details, nextDetail, fpc, fop, fresult, lastSearch, children,
                 chatRows, chatVars, histVars>>

\* update_document: only an active document can be changed; the status is
\* one of the fields.
UpdateDocument(d, status) ==
  /\ IF d \notin DOMAIN documents \/ documents[d].status # "active"
     THEN /\ Respond("update", d, "404", FALSE, "missing")
          /\ documents' = documents
     ELSE /\ documents' = [documents EXCEPT ![d].status = status]
          /\ Respond("update", d, "200", FALSE, "none")
  /\ UNCHANGED <<files, nextDoc, deleted, vstore, factVars, children, chatRows,
                 chatVars, histVars>>

\* The delete route with delete_document_with_file: 404 unless the row is
\* there and active; the entries are deleted by document_id (an exception of
\* the collection is swallowed by delete_document, which then returns False),
\* then the file and the row go.
DeleteDocument(d, vectorOk) ==
  /\ IF d \notin DOMAIN documents \/ documents[d].status # "active"
     THEN /\ Respond("delete", d, "404", FALSE, "missing")
          /\ UNCHANGED <<documents, files, deleted, vstore>>
     ELSE /\ vstore' = IF vectorOk THEN DeleteWhere(vstore, d) ELSE vstore
          /\ files' = files \ {d}
          /\ documents' = Drop(documents, d)
          /\ deleted' = deleted \cup {d}
          /\ Respond("delete", d, "200", vectorOk, "none")
  /\ UNCHANGED <<nextDoc, factVars, children, chatRows, chatVars, histVars>>

\* The faults and split counts that make a difference to an upload: none to
\* one that is rejected, and no splits to one that fails before it has any.
FaultsFor(extension, sizeOk) ==
  IF sizeOk /\ extension \in ALLOWED_EXTENSIONS THEN UploadFaults ELSE {"none"}

SplitsFor(extension, sizeOk, fault) ==
  IF sizeOk /\ extension \in ALLOWED_EXTENSIONS
     /\ fault \in {"none", "chunk_count"}
  THEN 0..MaxSplits ELSE {0}

NextDocs ==
  \/ \E x \in Extensions, sizeOk \in BOOLEAN :
        \E fault \in FaultsFor(x, sizeOk) :
           \E n \in SplitsFor(x, sizeOk, fault) :
              UploadDocument(x, sizeOk, n, fault)
  \/ \E d \in DOMAIN documents \cup deleted, status \in {"active", "deleted"} :
        UpdateDocument(d, status)
  \/ \E d \in DOMAIN documents \cup deleted, vectorOk \in BOOLEAN :
        DeleteDocument(d, vectorOk)

\* The collection holds the facts of two children when the documents arrive.
InitDocs ==
  /\ InitChatVars
  /\ InitFactVars
  /\ InitDocVars
  /\ vstore = {FactEntry(MaxIds + 10, "k1", "c1", "x")}
  /\ children = [c \in {"c1", "c2"} |-> IF c = "c1" THEN "u1" ELSE "u2"]
  /\ chatRows = <<>>

SpecDocs == InitDocs /\ [][NextDocs]_vars


(***************************************************************************)
(* Fact search over any content of the collection.                         *)
(***************************************************************************)
\* get_child_details_for_rag, called for any child id and any query.
FactSearch(cid, providerOk) ==
  /\ \E found \in GetChildDetailsForRag(vstore, cid, providerOk) :
        lastSearch' = [child |-> cid, found |-> found]
  /\ UNCHANGED <<vstore, details, nextId, nextDetail, fpc, fop, fresult,
                 children, chatRows, chatVars, docVars, histVars>>

NextSearch == \E c \in ChildIds, ok \in BOOLEAN : FactSearch(c, ok)

\* More facts of one child than a search returns, a fact of another child,
\* and a chunk of a document.
SearchSeeds ==
  {FactEntry(i, DetailIds[1], "c1", "x") : i \in 1..(FactLimit + 1)}
  \cup {FactEntry(FactLimit + 2, DetailIds[2], "c2", "y"),
        ChunkEntry(FactLimit + 3, "d1")}

InitSearch ==
  /\ InitChatVars
  /\ InitFactVars
  /\ InitDocVars
  /\ vstore \in SUBSET SearchSeeds
  /\ children = [c \in {"c1", "c2"} |-> IF c = "c1" THEN "u1" ELSE "u2"]
  /\ chatRows = <<>>

SpecSearch == InitSearch /\ [][NextSearch]_vars

(***************************************************************************)
(* Properties of the fact store and of the document index.                 *)
(***************************************************************************)
AllDetailIds == {DetailIds[i] : i \in DOMAIN DetailIds}

EntriesOf(d) == {e \in vstore : e.child_detail_id = d}

\* C6: with the fact requests served one after the other and nothing
\* failing, no detail ever has two entries in the collection, and between
\* requests every detail has exactly one, the one its embedding_id names,
\* however often it was updated.
C6_OneLiveEntryPerDetail ==
  /\ \A d \in AllDetailIds : Cardinality(EntriesOf(d)) <= 1
  /\ fpc["w1"] = "idle" =>
        \A d \in DOMAIN details :
           \E e \in vstore : /\ EntriesOf(d) = {e}
                             /\ e.id = details[d].embedding_id

\* The only detail ever created has been updated twice.
C6_Witness ==
  /\ fpc["w1"] = "idle"
  /\ nextDetail = 2
  /\ DetailIds[1] \in DOMAIN details
  /\ details[DetailIds[1]].embedding_id = 3

\* C7: whatever the collection holds and whatever is asked, a fact search
\* for child A returns only entries tagged with child_id A and with source
\* "child_detail", never another child's entry or a document chunk.
C7_SearchScopedToChild ==
  \A e \in lastSearch.found :
     /\ e \in vstore
     /\ e.child_id = lastSearch.child
     /\ e.source = "child_detail"

\* A search that found facts in a collection that also holds another
\* child's fact and a chunk.
C7_Witness ==
  /\ lastSearch.found # {}
  /\ \E e \in vstore : e.source = "child_detail" /\ e.child_id # lastSearch.child
  /\ \E e \in vstore : e.source # "child_detail"

C10_DeleteIsIdempotent ==
  dresult.op = "delete" =>
     /\ (dresult.doc \in deleted /\ ~dresult.repeated /\ dresult.chunks = 0)
           => dresult.status = "200"
     /\ dresult.repeated => dresult.status = "200"

(***************************************************************************)
(* Properties of the upload of a document.                                 *)
(***************************************************************************)
ActiveRows(rows) == {d \in DOMAIN rows : rows[d].status = "active"}

\* C11: an upload whose extension is not an allowed one is rejected before
\* any side effect: the step that answers it writes no file, inserts no
\* Document row and adds no entry to the collection.
C11_BadExtensionHasNoEffect ==
  [][(dresult'.op = "upload" /\ dresult'.cause = "extension") =>
        /\ files' = files
        /\ documents' = documents
        /\ vstore' = vstore]_vars

\* An upload was rejected for its extension while a document was stored.
C11_Witness ==
  /\ dresult.op = "upload"
  /\ dresult.cause = "extension"
  /\ dresult.status # "201"
  /\ files # {}

\* C12 as stated: an upload rejected for its extension or its size is
\* answered with status 400, never 500.
C12_ValidationFailureIs400 ==
  (dresult.op = "upload" /\ dresult.cause \in {"extension", "size"}) =>
     dresult.status = "400"

C14_FailedUploadLeavesNoEntries ==
  (dresult.op = "upload"
   /\ dresult.cause \in {"load", "add_documents", "chunk_count"}) =>
     {e \in vstore : e.document_id = dresult.doc} = {}

\* C15 as stated: an upload is rejected for the limit exactly when the
\* number of rows with status "active" has reached MAX_DOCUMENTS_PER_USER.
C15_LimitCountsActiveRows ==
  [][dresult'.op = "upload" =>
        (dresult'.cause = "limit"
           <=> Cardinality(ActiveRows(documents)) >= MAX_DOCUMENTS_PER_USER)]_vars

(***************************************************************************)
(* Properties of the facts when children are deleted.                      *)
(***************************************************************************)
\* C16 as stated: after any sequence of fact creations, updates and
\* deletions and of child deletions, every fact entry of the collection
\* names, by child_detail_id, a ChildDetail row that exists.
C16_FactEntryHasRow ==
  \A e \in vstore :
     e.source = "child_detail" => e.child_detail_id \in DOMAIN details

(***************************************************************************)
(* get_chat_history over any stored turns (rag/chat_history.py).           *)
(***************************************************************************)
HistorySessions == {"s1", "s2"}

TurnQueries == <<"q1", "q2", "q3", "q4", "q5">>

TurnAnswers == <<"a1", "a2", "a3", "a4", "a5">>

\* The i-th turn stored: every turn has its own question and answer.
StoredTurn(i, sid, user) ==
  SaveChatInteraction(user, sid, <<TurnQueries[i]>>, <<TurnAnswers[i]>>,
                      None, {})

\* The turns of up to MaxTurns earlier requests, of any user under any
\* session id, in the order they were saved.
StoredHistories ==
  UNION {{[i \in 1..n |-> StoredTurn(i, ss[i], us[i])] :
            ss \in [1..n -> HistorySessions], us \in [1..n -> Users]} :
         n \in 0..MaxTurns}

HistoryCall(sid, limit) ==
  /\ lastHistory' = [session_id |-> sid, limit |-> limit,
                     messages |-> GetChatHistory(chatRows, sid, limit)]
  /\ UNCHANGED <<vstore, children, chatRows, chatVars, factVars, docVars>>

NextHistory ==
  \E sid \in HistorySessions, limit \in (1..MaxTurns) \cup {HistoryLimit} :
     HistoryCall(sid, limit)

InitHistory ==
  /\ InitChatVars
  /\ InitFactVars
  /\ InitDocVars
  /\ vstore = {}
  /\ children = [c \in {"c1", "c2"} |-> IF c = "c1" THEN "u1" ELSE "u2"]
  /\ chatRows \in StoredHistories

SpecHistory == InitHistory /\ [][NextHistory]_vars

NextTurns ==
  \/ NextFactsRoutes
  \/ \E u \in Users, c \in ChildIds : DeleteChild("w1", u, c)
  \/ NextHistory

SpecTurns == InitTurns /\ [][NextTurns]_vars

\* C17: whatever turns are stored and whichever session is asked for, the
\* messages get_chat_history returns come in pairs, a human message with the
\* user_query of a turn of that session followed by an ai message with the
\* ai_response of the same turn, and the turns of successive pairs were
\* created one after the other: oldest first, roles alternating from human.
C17_ChronologicalAlternating ==
  LET m == lastHistory.messages
      k == Len(m) \div 2
  IN /\ Len(m) = 2 * k
     /\ \E f \in [1..k -> DOMAIN chatRows] :
           /\ \A i \in 1..k :
                 /\ chatRows[f[i]].session_id = lastHistory.session_id
                 /\ m[2 * i - 1] = [role |-> "human",
                                    content |-> chatRows[f[i]].user_query]
                 /\ m[2 * i] = [role |-> "ai",
                                content |-> chatRows[f[i]].ai_response]
           /\ \A i, j \in 1..k : i < j => f[i] < f[j]

\* A call that returned the messages of two turns of a session whose turns
\* are interleaved with another session's.
C17_Witness ==
  /\ Len(lastHistory.messages) = 4
  /\ Len(chatRows) = 3
  /\ chatRows[2].session_id # lastHistory.session_id

(***************************************************************************)
(* Properties of the chat generator when a provider fails.                 *)
(***************************************************************************)
\* C18: when the embedding or search provider fails during the fact lookup,
\* get_child_details_for_rag returns the empty list and raises nothing: the
\* step yields no event, the child snapshot has no relevant details, the
\* history is loaded and the generator goes on to the model set-up; an error
\* event of such a run comes from a later stage, never from the lookup.
C18_FactLookupFailureIsSoft ==
  /\ [][("fact_lookup_failed" \in calls' /\ "fact_lookup_failed" \notin calls)
          => /\ pc' = "llm_init"
             /\ events' = events
             /\ child_info'.child = req.child_id
             /\ child_info'.relevant_details = {}
             /\ "history_load" \in calls'
             /\ chat_history' = GetChatHistory(chatRows, session_id,
                                               HistoryLimit)]_vars
  /\ []("fact_lookup_failed" \in calls =>
          /\ child_info.relevant_details = {}
          /\ \A i \in EventsOfKind("error") :
                \/ events[i].detail = "Failed to initialize LLM"
                \/ /\ "type" \in events[i].keys
                   /\ calls \cap {"reformulate_failed", "retrieve_failed",
                                  "generate"} # {})

\* A request whose fact lookup failed, though the collection holds a fact of
\* its child, and which went on to stream tokens and save the turn.
C18_Witness ==
  /\ "fact_lookup_failed" \in calls
  /\ pc = "done"
  /\ \E e \in vstore : e.source = "child_detail" /\ e.child_id = req.child_id
  /\ EventsOfKind("token") # {}
  /\ EventsOfKind("error") = {}
  /\ Len(NewRows) = 1

\* C19 as stated: when the document search of a chat request fails, the
\* failure is swallowed: a sources event with the empty list is sent and no
\* error event.
C19_SearchFailureIsSwallowed ==
  "retrieve_failed" \in calls =>
     /\ EventsOfKind("error") = {}
     /\ \E i \in EventsOfKind("sources") : events[i].sources = {}

\* C20: a failure of the reformulation call aborts the request: nothing is
\* called after it (no second attempt, no search, no generation), exactly one
\* error event is sent, no sources and no token event, and no turn is saved.
C20_ReformulationFailureAborts ==
  /\ []("reformulate_failed" \in calls =>
          /\ Cardinality(EventsOfKind("error")) = 1
          /\ EventsOfKind("sources") = {}
          /\ EventsOfKind("token") = {}
          /\ calls \cap {"retrieve", "generate"} = {}
          /\ saveCalls = 0
          /\ NewRows = << >>)
  /\ [][("reformulate_failed" \in calls) =>
          (calls' = calls /\ events' = events)]_vars

\* A request with a history whose reformulation failed and which has ended.
C20_Witness ==
  /\ "reformulate_failed" \in calls
  /\ chat_history # << >>
  /\ pc = "done"

(***************************************************************************)
(* Properties of the error events of the chat generator.                   *)
(***************************************************************************)
ChildRejected ==
  /\ pc \notin {"idle", "start"}
  /\ req.child_id # None
  /\ ~(req.child_id \in DOMAIN children /\ children[req.child_id] = req.user)

\* C21: when the child of a chat request does not exist or belongs to
\* another user, the stream is one error event and nothing else: only the
\* child lookup is made (no fact lookup, history load, reformulation, search
\* or generation), and no turn is saved.
C21_RejectedChildOnlyErrors ==
  ChildRejected =>
     /\ Len(events) = 1
     /\ events[1].kind = "error"
     /\ calls = {"child_lookup"}
     /\ saveCalls = 0
     /\ NewRows = << >>
     /\ pc \in {"yield_early_error", "done"}

\* A finished request for another user's child, with that child's facts in
\* the collection and turns stored under the session.
C21_Witness ==
  /\ ChildRejected
  /\ pc = "done"
  /\ req.child_id \in DOMAIN children
  /\ \E e \in vstore : e.child_id = req.child_id
  /\ rowsAtStart > 0

\* C22 as stated: every error event on the chat stream carries a detail
\* field and a type field.
C22_ErrorHasDetailAndType ==
  \A i \in EventsOfKind("error") : {"detail", "type"} \subseteq events[i].keys

(***************************************************************************)
(* Properties of the fact routes: validation, ownership, failures.         *)
(***************************************************************************)
NotOwned(c, u) == c \notin DOMAIN children \/ children[c] # u

Malformed(cs) == cs = << >> \/ \E i \in DOMAIN cs : cs[i] # cs[1]

StoresUnchanged ==
  /\ details' = details
  /\ vstore' = vstore
  /\ children' = children
  /\ chatRows' = chatRows

\* C23: a batch that is empty, or whose items do not all name the same
\* child, wherever the differing item stands, is answered with 400, and the
\* step that answers 400 inserts no ChildDetail row and adds no entry to the
\* collection.
C23_MalformedBatchHasNoEffect ==
  /\ [](\A u \in Users, cs \in Batches :
          Malformed(cs) => BatchStatus(cs, u) = "400")
  /\ [][fresult'["w1"] = "400" => StoresUnchanged]_vars

\* A batch was rejected as malformed while facts were stored.
C23_Witness ==
  /\ fresult["w1"] = "400"
  /\ fpc["w1"] = "idle"
  /\ DOMAIN details # {}
  /\ \E e \in vstore : e.source = "child_detail"

\* C24: a create or batch create for a child that is missing or not the
\* caller's, and an update or delete of a detail that is missing or whose
\* child is not the caller's, is answered with 404 or 403 by a step that
\* leaves the tables and the collection as they were.
C24_UnownedTargetHasNoEffect ==
  [][fpc["w1"] = "idle" =>
      IF fresult'["w1"] \in {"404", "403"}
      THEN StoresUnchanged
      ELSE /\ \A u \in Users, c \in ChildIds :
                NotOwned(c, u) => ~CreateBegin("w1", u, c, "x")
           /\ \A u \in Users, cs \in Batches :
                (~Malformed(cs) /\ NotOwned(cs[1], u)) =>
                   ~CreateBatch("w1", u, cs, "x", 0)
           /\ \A u \in Users, d \in DetailArgs :
                (d \notin DOMAIN details \/ NotOwned(details[d].child_id, u)) =>
                   ~UpdateBegin("w1", u, d, "y")
           /\ \A u \in Users, d \in DetailArgs :
                (d \notin DOMAIN details \/ NotOwned(details[d].child_id, u)) =>
                   ~DeleteChildDetail("w1", u, d, TRUE)
     ]_vars

\* A request on another user's fact was refused while that fact stays
\* stored with its entry.
C24_Witness ==
  /\ fresult["w1"] = "403"
  /\ fpc["w1"] = "idle"
  /\ \E d \in DOMAIN details :
        \E e \in vstore : e.id = details[d].embedding_id

(***************************************************************************)
(* C25: rollback of the row of a fact whose embedding failed.              *)
(***************************************************************************)
\* C25: once a create or batch create has returned, no ChildDetail row is
\* left without its entry: the row of a fact whose embedding raised was
\* rolled back.
C25_FailedCreateLeavesNoRow ==
  fpc["w1"] = "idle" =>
     \A d \in DOMAIN details : details[d].embedding_id # NoId

(***************************************************************************)
(* C26: the ChatHistory table is append-only.                              *)
(***************************************************************************)
\* C26: no step removes or changes a persisted turn: every ChatHistory row
\* of the table is in the table, with the same fields, after the step.
C26_TurnsAppendOnly ==
  [][\A i \in DOMAIN chatRows :
        \E j \in DOMAIN chatRows' : chatRows'[j] = chatRows[i]]_vars

(***************************************************************************)
(* C27: two re-embeds of one detail that overlap.                          *)
(***************************************************************************)
\* Every fact entry is the one its row names or the one a request in flight
\* has just embedded and is about to write back.
AllAccounted ==
  \A e \in vstore :
     e.source = "child_detail" =>
        \/ /\ e.child_detail_id \in DOMAIN details
           /\ details[e.child_detail_id].embedding_id = e.id
        \/ \E w \in Workers : fop[w].new_id = e.id

\* The re-embed of worker w overlaps another of the same detail: the other
\* is in flight, or it has written its id back since w read the row.
Overlapped(w) ==
  \/ \E v \in Workers \ {w} : fop[v].detail = fop[w].detail
  \/ details[fop[w].detail].embedding_id # fop[w].embedding_id

\* C27: from a state in which every entry is accounted for, a step that
\* leaves a detail with two entries is the embedding step of a request that
\* overlapped another request embedding that detail; a re-embed that runs
\* alone on an unchanged row never produces a second entry.
C27_SecondEntryOnlyWhenOverlapped ==
  [][\A d \in DOMAIN details :
        (/\ AllAccounted
         /\ Cardinality(EntriesOf(d)) <= 1
         /\ Cardinality({e \in vstore' : e.child_detail_id = d}) >= 2) =>
           \E w \in Workers : /\ fpc[w] \in {"create_embed", "update_embed"}
                              /\ fop[w].detail = d
                              /\ Overlapped(w)]_vars

\* Both re-embeds have returned; the detail has two entries and its
\* embedding_id names one of them, the other is an orphan.
C27_Witness ==
  /\ \A w \in Workers : fpc[w] = "idle"
  /\ \E d \in DOMAIN details :
        /\ Cardinality(EntriesOf(d)) = 2
        /\ \E e \in EntriesOf(d) : e.id = details[d].embedding_id
        /\ \E e \in EntriesOf(d) : e.id # details[d].embedding_id

(***************************************************************************)
(* C28: how many turns get_chat_history returns, and which.                *)
(***************************************************************************)
\* The rows of the session the last call asked for.
SessionTurns ==
  {i \in DOMAIN chatRows : chatRows[i].session_id = lastHistory.session_id}

\* The k most recently created of them.
MostRecent(k) ==
  {i \in SessionTurns : Cardinality({j \in SessionTurns : j > i}) < k}

Min(a, b) == IF a <= b THEN a ELSE b

C29_HistoryOfRequestingUser ==
  \A k \in DOMAIN chat_history :
     \E i \in DOMAIN chatRows :
        /\ chatRows[i].user_id = req.user
        /\ chat_history[k].content \in
              {chatRows[i].user_query, chatRows[i].ai_response}

(***************************************************************************)
(* C30: what embedding_id names once a create or update has returned.      *)
(***************************************************************************)
\* C30: between requests, whether the last one succeeded or failed, every
\* embedding_id that is set names an entry that is in the collection, is
\* the entry of that detail, and was built from the content the row holds.
C30_EmbeddingIdNamesCurrentEntry ==
  fpc["w1"] = "idle" =>
     \A d \in DOMAIN details :
        details[d].embedding_id # NoId =>
           \E e \in vstore :
              /\ e.id = details[d].embedding_id
              /\ e.child_detail_id = d
              /\ e.content = details[d].content

====
